---- MODULE Spec2Model ----
(***************************************************************************)
(* Model of the anima engine (spaghettifunk/anima): start-up of the Vulkan *)
(* objects, the winit event loop of Engine::run, the per-frame             *)
(* synchronisation of VulkanRenderer::render and the shutdown sequence of  *)
(* VulkanRenderer::destroy, together with the driver/GPU side that signals *)
(* the semaphores and fences the renderer waits on.                        *)
(*                                                                         *)
(* Indices are 0-based as in the Rust code; a Rust Vec v is a TLA+         *)
(* sequence and v[k] is At(v, k).  Vulkan handles are positive integers,   *)
(* vk::Fence::null() is 0.                                                 *)
(***************************************************************************)
EXTENDS Integers, Sequences, FiniteSets, TLC

\* constants.rs:11
MAX_FRAMES_IN_FLIGHT == 2

\* Bounds of the model: swapchain images the driver may create, frames the
\* loop renders, CloseRequested events the window system delivers.
MaxImages == 3
MaxFrames == 4
MaxClose == 2

\* Queue family indices (graphics, present) the selected adapter may report:
\* one family for both, or two different families.
QueueFamilyIndices == {<<0, 0>>, <<0, 1>>}

NullHandle == 0

VARIABLES
    validation,      \* constants::VALIDATION_ENABLED (cfg!(debug_assertions))
    pc,              \* position of the control thread
    context,         \* VulkanContext: the handles the renderer keeps
    frame,           \* VulkanRenderer.frame
    image_index,     \* render(): local image_index
    prev_fence,      \* render(): images_in_flight[image_index] as read at line 111
    exiting,         \* elwt.exiting()
    redraw_requested,\* window.request_redraw() pending
    closes,          \* CloseRequested events handled so far
    destroy_count,   \* invocations of VulkanRenderer::destroy
    fence_signaled,  \* driver: fence handle -> signaled
    sem_signaled,    \* driver: semaphore handle -> signaled
    acquires,        \* driver: pending image-available signal operations
    submissions,     \* driver: queue submissions whose fence is not yet signaled
    presents,        \* driver: present requests not yet carried out
    acquirable,      \* driver: the presentation engine has an image to hand out
    startup_calls,   \* trace of create/destroy driver calls made by start-up
    destroy_calls,   \* trace of driver calls made by the last destroy()
    frame_trace,     \* steps of the current/last render() call, in order
    slots_used,      \* frame slot of every successful render(), in order
    frame_log,       \* what the GPU has done for the render() call in progress
    acquired,        \* swapchain images the driver has handed out so far
    hazard,          \* record of observed violations (claim/destroy/use after destroy)
    error,           \* the step whose driver call failed, or "none"
    scan,            \* VulkanDevice::new: the adapter scan and the device request
    available_layers,\* VulkanInstance::new: the instance layers the driver listed
    messages         \* what debug_callback has logged and returned, per driver message

vars == <<validation, pc, context, frame, image_index, prev_fence, exiting,
          redraw_requested, closes, destroy_count, fence_signaled, sem_signaled,
          acquires, submissions, presents, acquirable, startup_calls,
          destroy_calls, frame_trace, slots_used, frame_log, acquired, hazard,
          error, scan, available_layers, messages>>

cpu_vars == <<validation, pc, context, frame, image_index, prev_fence, exiting,
              redraw_requested, closes, destroy_count, startup_calls,
              destroy_calls, frame_trace, slots_used, acquired, error, scan, available_layers, messages>>

At(v, k) == v[k + 1]

Slots == 0 .. (MAX_FRAMES_IN_FLIGHT - 1)

Range(s) == {s[k] : k \in 1 .. Len(s)}

\* A driver call in a trace.
Call(op, kind, h) == [op |-> op, kind |-> kind, h |-> h]

\* One call per element of a Vec of handles, in iteration order.
ForEach(op, kind, v) == [k \in 1 .. Len(v) |-> Call(op, kind, v[k])]

\* The recording of a command buffer: begin_command_buffer ..
\* end_command_buffer with a render pass on the given framebuffer.
RecordCall(command_buffer, framebuffer) ==
    [ op |-> "record", kind |-> "command_buffer", h |-> command_buffer,
      framebuffer |-> framebuffer ]

(***************************************************************************)
(* Device selection (device.rs): what the driver reports for an adapter,   *)
(* and the checks of VulkanDevice::check_physical_device as functions of   *)
(* it.  A query the driver answers with an error is "error".               *)
(***************************************************************************)
\* constants.rs:5-6
VALIDATION_LAYER == "VK_LAYER_KHRONOS_validation"

\* constants.rs:8
DEVICE_EXTENSIONS == {"VK_KHR_swapchain"}

\* Bound of the model: adapters enumerate_physical_devices may return.
MaxAdapters == 2

\* A queue family: its GRAPHICS flag and the driver's answer to
\* get_physical_device_surface_support_khr for it.
QueueFamily == [graphics : BOOLEAN, present : {"yes", "no", "error"}]

\* get_physical_device_queue_family_properties: none, one or two families.
QueueFamilyProperties ==
    {<<>>} \cup {<<f>> : f \in QueueFamily}
           \cup {<<f, g>> : f \in QueueFamily, g \in QueueFamily}

\* enumerate_device_extension_properties: the names, or an error.
DeviceExtensionProperties ==
    [query : {"ok"}, names : SUBSET {"VK_KHR_swapchain", "VK_KHR_maintenance1"}]
        \cup {[query |-> "error", names |-> {}]}

\* VulkanSwapchain::get: the numbers of surface formats and present modes
\* (none or some), or an error.
SwapchainSupport ==
    [query : {"ok"}, formats : 0 .. 1, present_modes : 0 .. 1]
        \cup {[query |-> "error", formats |-> 0, present_modes |-> 0]}

PhysicalDevices ==
    [ families : QueueFamilyProperties,
      extensions : DeviceExtensionProperties,
      support : SwapchainSupport ]

\* The errors of the scan: the three SuitabilityErrors and a driver error
\* carried by `?`.
MissingQueueFamilies == "Missing required queue families."
MissingExtensions == "Missing required device extensions."
InsufficientSupport == "Insufficient swapchain support."
DriverError == "driver error"

\* device.rs 180-183: position of the first family with the GRAPHICS flag
\* (0-based), -1 for None.
RECURSIVE GraphicsFrom(_, _)
GraphicsFrom(families, index) ==
    IF index >= Len(families) THEN -1
    ELSE IF At(families, index).graphics THEN index
    ELSE GraphicsFrom(families, index + 1)

\* device.rs 185-198: the loop over the families; a failing surface-support
\* query returns its error at once, the first family that can present ends
\* the loop.  present is -1 for None.
RECURSIVE PresentFrom(_, _)
PresentFrom(families, index) ==
    IF index >= Len(families) THEN [error |-> "none", present |-> -1]
    ELSE IF At(families, index).present = "error"
           THEN [error |-> DriverError, present |-> -1]
    ELSE IF At(families, index).present = "yes"
           THEN [error |-> "none", present |-> index]
    ELSE PresentFrom(families, index + 1)

\* QueueFamilyIndices::get (device.rs 171-207)
QueueFamilyIndicesGet(families) ==
    LET graphics == GraphicsFrom(families, 0)
        scanned == PresentFrom(families, 0)
    IN  IF scanned.error # "none"
          THEN [error |-> scanned.error, graphics |-> -1, present |-> -1]
        ELSE IF graphics # -1 /\ scanned.present # -1
          THEN [error |-> "none", graphics |-> graphics, present |-> scanned.present]
        ELSE [error |-> MissingQueueFamilies, graphics |-> -1, present |-> -1]

\* VulkanDevice::check_physical_device_extensions (device.rs 66-87)
CheckPhysicalDeviceExtensions(extensions) ==
    IF extensions.query = "error" THEN DriverError
    ELSE IF \A e \in DEVICE_EXTENSIONS : e \in extensions.names THEN "none"
    ELSE MissingExtensions

\* Mutant of CheckPhysicalDevice: the swapchain support is not looked at.
CheckPhysicalDevice_NoSupportCheck(physical_device) ==
    LET indices == QueueFamilyIndicesGet(physical_device.families)
        extensions == CheckPhysicalDeviceExtensions(physical_device.extensions)
    IN  IF indices.error # "none" THEN indices.error
        ELSE IF extensions # "none" THEN extensions
        ELSE "none"

\* VulkanDevice::check_physical_device (device.rs 50-64): "none" for Ok(()).
CheckPhysicalDevice(physical_device) ==
    LET indices == QueueFamilyIndicesGet(physical_device.families)
        extensions == CheckPhysicalDeviceExtensions(physical_device.extensions)
        support == physical_device.support
    IN  IF indices.error # "none" THEN indices.error
        ELSE IF extensions # "none" THEN extensions
        ELSE IF support.query = "error" THEN DriverError
        ELSE IF support.formats = 0 \/ support.present_modes = 0
          THEN InsufficientSupport
        ELSE "none"

\* The locals of VulkanDevice::new before it is called: nothing enumerated,
\* nothing examined, no queue requested.
NoPhysicalDevice ==
    [ families |-> <<>>,
      extensions |-> [query |-> "error", names |-> {}],
      support |-> [query |-> "error", formats |-> 0, present_modes |-> 0] ]

NoScan ==
    [ stage |-> "idle", count |-> 0, physical_device |-> NoPhysicalDevice,
      examined |-> <<>>, queue_infos |-> <<>>, queue_gets |-> <<>> ]

(***************************************************************************)
(* Start-up: Engine::new -> Renderer::create -> VulkanRenderer::new.       *)
(***************************************************************************)
EmptyContext ==
    [ messenger |-> NullHandle, surface |-> NullHandle,
      physical_device |-> NullHandle,
      graphics_queue |-> NullHandle, present_queue |-> NullHandle,
      swapchain |-> NullHandle, swapchain_images |-> <<>>,
      swapchain_image_views |-> <<>>,
      pipeline_layout |-> NullHandle, render_pass |-> NullHandle,
      pipeline |-> NullHandle,
      framebuffers |-> <<>>, command_pool |-> NullHandle,
      command_buffers |-> <<>>,
      image_available_semaphore |-> NullHandle,
      render_finished_semaphore |-> NullHandle,
      image_available_semaphores |-> <<>>,
      render_finished_semaphores |-> <<>>,
      in_flight_fences |-> <<>>, images_in_flight |-> <<>> ]

\* Nothing of the frame has run on the GPU; -1 stands for no image.
NewFrameLog == [image |-> -1, available |-> FALSE, drawn |-> -1, shown |-> -1]

NoHazard == [claim |-> FALSE, destroy_pending |-> FALSE, use_after_destroy |-> FALSE]

Init ==
    /\ validation \in BOOLEAN
    /\ pc = "instance_new"
    /\ context = EmptyContext
    /\ frame = 0
    /\ image_index = 0
    /\ prev_fence = NullHandle
    /\ exiting = FALSE
    /\ redraw_requested = FALSE
    /\ closes = 0
    /\ destroy_count = 0
    /\ fence_signaled = <<>>
    /\ sem_signaled = <<>>
    /\ acquires = {}
    /\ submissions = {}
    /\ presents = {}
    /\ acquirable = TRUE
    /\ startup_calls = <<>>
    /\ destroy_calls = <<>>
    /\ frame_trace = <<>>
    /\ slots_used = <<>>
    /\ frame_log = NewFrameLog
    /\ acquired = {}
    /\ hazard = NoHazard
    /\ error = "none"
    /\ scan = NoScan
    /\ available_layers = {}
    /\ messages = <<>>

StartupSteps ==
    <<"instance_new", "create_instance", "swapchain_new", "device_new", "swapchain_create",
      "create_image_views", "pipeline_create", "framebuffer_create",
      "create_command_pool", "create_command_buffers", "create_sync_objects">>

\* What a start-up step leaves alone besides pc, context and startup_calls.
StartupUnchanged ==
    UNCHANGED <<validation, frame, image_index, prev_fence, exiting,
                redraw_requested, closes, destroy_count, acquires, submissions,
                presents, acquirable, destroy_calls, frame_trace, slots_used,
                frame_log, acquired, hazard, error, scan, available_layers, messages>>

\* What enumerate_instance_layer_properties may list.
InstanceLayers == SUBSET {VALIDATION_LAYER, "VK_LAYER_LUNARG_api_dump"}

\* instance.rs 44: validation is requested and its layer is not listed.
MissingLayer == validation /\ VALIDATION_LAYER \notin available_layers

ValidationNotSupported == "Validation layer requested but not supported."

\* What a step of VulkanInstance::new leaves alone.
InstanceUnchanged ==
    UNCHANGED <<validation, frame, image_index, prev_fence, exiting,
                redraw_requested, closes, destroy_count, fence_signaled,
                sem_signaled, acquires, submissions, presents, acquirable,
                destroy_calls, frame_trace, slots_used, frame_log, acquired,
                hazard, scan, messages>>

\* instance.rs 38-42: the layers the driver lists, collected in
\* available_layers.
EnumerateInstanceLayers ==
    /\ pc = "instance_new"
    /\ \E layers \in InstanceLayers : available_layers' = layers
    /\ pc' = "create_instance"
    /\ UNCHANGED <<context, startup_calls, error>>
    /\ InstanceUnchanged

\* instance.rs 44-47: validation requested but its layer is missing; the
\* error is returned before anything is created.
MissingValidationLayer ==
    /\ pc = "create_instance"
    /\ MissingLayer
    /\ pc' = "startup_failed"
    /\ error' = ValidationNotSupported
    /\ available_layers' = {}
    /\ UNCHANGED <<context, startup_calls>>
    /\ InstanceUnchanged

\* Mutant of InstanceNew: the instance is created whether or not the
\* validation layer is listed.
InstanceNew_NoLayerCheck ==
    /\ pc = "create_instance"
    /\ startup_calls' = startup_calls
            \o <<Call("create", "instance", 1)>>
            \o (IF validation THEN <<Call("create", "debug_messenger", 1)>> ELSE <<>>)
    /\ context' = [context EXCEPT !.messenger = IF validation THEN 1 ELSE NullHandle]
    /\ pc' = "swapchain_new"
    /\ available_layers' = {}
    /\ UNCHANGED error
    /\ InstanceUnchanged

\* instance.rs 49-110, the rest of VulkanInstance::new: the instance, then the
\* debug messenger when validation is enabled.
InstanceNew ==
    /\ pc = "create_instance"
    /\ ~MissingLayer
    /\ startup_calls' = startup_calls
            \o <<Call("create", "instance", 1)>>
            \o (IF validation THEN <<Call("create", "debug_messenger", 1)>> ELSE <<>>)
    /\ context' = [context EXCEPT !.messenger = IF validation THEN 1 ELSE NullHandle]
    /\ pc' = "swapchain_new"
    /\ available_layers' = {}
    /\ UNCHANGED error
    /\ InstanceUnchanged

\* VulkanSwapchain::new: creates the window surface the device selection needs.
SwapchainNew ==
    /\ pc = "swapchain_new"
    /\ startup_calls' = Append(startup_calls, Call("create", "surface", 1))
    /\ context' = [context EXCEPT !.surface = 1]
    /\ pc' = "device_new"
    /\ UNCHANGED <<fence_signaled, sem_signaled>>
    /\ StartupUnchanged

\* get_device_queue(family, 0): one queue per family, so the handle is decided
\* by the family index.
GetDeviceQueue(family) == family + 1

\* VulkanDevice::new: the queue family indices of the selected adapter, the
\* logical device, and the two queue handles.
DeviceNew ==
    /\ pc = "device_new"
    /\ \E indices \in QueueFamilyIndices :
          context' = [context EXCEPT !.physical_device = 1,
                                     !.graphics_queue = GetDeviceQueue(indices[1]),
                                     !.present_queue = GetDeviceQueue(indices[2])]
    /\ startup_calls' = Append(startup_calls, Call("create", "device", 1))
    /\ pc' = "swapchain_create"
    /\ UNCHANGED <<fence_signaled, sem_signaled>>
    /\ StartupUnchanged

\* VulkanSwapchain::create: the swapchain and the images the driver made for it.
SwapchainCreate ==
    /\ pc = "swapchain_create"
    /\ \E n \in 1 .. MaxImages :
          context' = [context EXCEPT !.swapchain = 1,
                                     !.swapchain_images = [k \in 1 .. n |-> k]]
    /\ startup_calls' = Append(startup_calls, Call("create", "swapchain", 1))
    /\ pc' = "create_image_views"
    /\ UNCHANGED <<fence_signaled, sem_signaled>>
    /\ StartupUnchanged

\* VulkanSwapchain::create_image_views: one view per swapchain image.
CreateImageViews ==
    /\ pc = "create_image_views"
    /\ context' = [context EXCEPT !.swapchain_image_views =
                        [k \in 1 .. Len(context.swapchain_images) |-> k]]
    /\ startup_calls' = startup_calls
            \o ForEach("create", "image_view", context'.swapchain_image_views)
    /\ pc' = "pipeline_create"
    /\ UNCHANGED <<fence_signaled, sem_signaled>>
    /\ StartupUnchanged

\* VulkanPipeline::create: render pass, the two transient shader modules,
\* pipeline layout, graphics pipeline; the shader modules are destroyed again.
PipelineCreate ==
    /\ pc = "pipeline_create"
    /\ startup_calls' = startup_calls \o
            << Call("create", "render_pass", 1),
               Call("create", "shader_module", 1),
               Call("create", "shader_module", 2),
               Call("create", "pipeline_layout", 1),
               Call("create", "pipeline", 1),
               Call("destroy", "shader_module", 1),
               Call("destroy", "shader_module", 2) >>
    /\ context' = [context EXCEPT !.render_pass = 1, !.pipeline_layout = 1,
                                  !.pipeline = 1]
    /\ pc' = "framebuffer_create"
    /\ UNCHANGED <<fence_signaled, sem_signaled>>
    /\ StartupUnchanged

\* VulkanFramebuffer::create: one framebuffer per swapchain image view.
FramebufferCreate ==
    /\ pc = "framebuffer_create"
    /\ context' = [context EXCEPT !.framebuffers =
                        [k \in 1 .. Len(context.swapchain_image_views) |-> k]]
    /\ startup_calls' = startup_calls
            \o ForEach("create", "framebuffer", context'.framebuffers)
    /\ pc' = "create_command_pool"
    /\ UNCHANGED <<fence_signaled, sem_signaled>>
    /\ StartupUnchanged

\* VulkanCommandBuffer::create_command_pool
CreateCommandPool ==
    /\ pc = "create_command_pool"
    /\ context' = [context EXCEPT !.command_pool = 1]
    /\ startup_calls' = Append(startup_calls, Call("create", "command_pool", 1))
    /\ pc' = "create_command_buffers"
    /\ UNCHANGED <<fence_signaled, sem_signaled>>
    /\ StartupUnchanged

\* Mutant of CreateCommandBuffers: one command buffer per frame slot instead
\* of one per framebuffer.
CreateCommandBuffers_PerFrameSlot ==
    /\ pc = "create_command_buffers"
    /\ context' = [context EXCEPT !.command_buffers =
                        [k \in 1 .. MAX_FRAMES_IN_FLIGHT |-> k]]
    /\ startup_calls' = startup_calls
            \o ForEach("allocate", "command_buffer", context'.command_buffers)
            \o [k \in 1 .. Len(context'.command_buffers) |->
                    RecordCall(context'.command_buffers[k],
                               At(context.framebuffers,
                                  (k - 1) % Len(context.framebuffers)))]
    /\ pc' = "create_sync_objects"
    /\ UNCHANGED <<fence_signaled, sem_signaled>>
    /\ StartupUnchanged

\* Mutant of CreateCommandBuffers: every command buffer is recorded against
\* the first framebuffer.
CreateCommandBuffers_FirstFramebuffer ==
    /\ pc = "create_command_buffers"
    /\ context' = [context EXCEPT !.command_buffers =
                        [k \in 1 .. Len(context.framebuffers) |-> k]]
    /\ startup_calls' = startup_calls
            \o ForEach("allocate", "command_buffer", context'.command_buffers)
            \o [k \in 1 .. Len(context'.command_buffers) |->
                    RecordCall(context'.command_buffers[k], context.framebuffers[1])]
    /\ pc' = "create_sync_objects"
    /\ UNCHANGED <<fence_signaled, sem_signaled>>
    /\ StartupUnchanged

\* VulkanCommandBuffer::create_command_buffers: framebuffers.len() buffers are
\* allocated from the pool; in the loop over them, buffer i is recorded once
\* against framebuffers[i].
CreateCommandBuffers ==
    /\ pc = "create_command_buffers"
    /\ context' = [context EXCEPT !.command_buffers =
                        [k \in 1 .. Len(context.framebuffers) |-> k]]
    /\ startup_calls' = startup_calls
            \o ForEach("allocate", "command_buffer", context'.command_buffers)
            \o [k \in 1 .. Len(context'.command_buffers) |->
                    RecordCall(context'.command_buffers[k], context.framebuffers[k])]
    /\ pc' = "create_sync_objects"
    /\ UNCHANGED <<fence_signaled, sem_signaled>>
    /\ StartupUnchanged

\* Handles the driver returns in create_sync_objects, in creation order.
ImageAvailableHandle(slot) == 2 * slot + 1
RenderFinishedHandle(slot) == 2 * slot + 2
FenceHandle(slot) == slot + 1

\* The create calls of the loop `for _ in 0..MAX_FRAMES_IN_FLIGHT`: per slot an
\* image-available semaphore, a render-finished semaphore and a fence.
SyncCreateCalls ==
    [ j \in 1 .. (3 * MAX_FRAMES_IN_FLIGHT) |->
        LET slot == (j - 1) \div 3
            pos == (j - 1) % 3
        IN  CASE pos = 0 -> Call("create", "semaphore", ImageAvailableHandle(slot))
              [] pos = 1 -> Call("create", "semaphore", RenderFinishedHandle(slot))
              [] OTHER -> Call("create", "fence", FenceHandle(slot)) ]

\* Mutant of CreateSyncObjects: one set of synchronization objects per
\* swapchain image instead of one per frame slot.
CreateSyncObjects_PerImage ==
    /\ pc = "create_sync_objects"
    /\ context' = [context EXCEPT
            !.image_available_semaphores =
                [k \in 1 .. Len(context.swapchain_images) |-> ImageAvailableHandle(k - 1)],
            !.render_finished_semaphores =
                [k \in 1 .. Len(context.swapchain_images) |-> RenderFinishedHandle(k - 1)],
            !.in_flight_fences =
                [k \in 1 .. Len(context.swapchain_images) |-> FenceHandle(k - 1)],
            !.images_in_flight =
                [k \in 1 .. Len(context.swapchain_images) |-> NullHandle]]
    /\ fence_signaled' = [k \in 1 .. Len(context.swapchain_images) |-> TRUE]
    /\ sem_signaled' = [k \in 1 .. (2 * Len(context.swapchain_images)) |-> FALSE]
    /\ startup_calls' = startup_calls \o SyncCreateCalls
    /\ pc' = "loop"
    /\ StartupUnchanged

\* Mutant of CreateSyncObjects: the fences are created without the SIGNALED
\* flag.
CreateSyncObjects_Unsignaled ==
    /\ pc = "create_sync_objects"
    /\ context' = [context EXCEPT
            !.image_available_semaphores =
                [k \in 1 .. MAX_FRAMES_IN_FLIGHT |-> ImageAvailableHandle(k - 1)],
            !.render_finished_semaphores =
                [k \in 1 .. MAX_FRAMES_IN_FLIGHT |-> RenderFinishedHandle(k - 1)],
            !.in_flight_fences =
                [k \in 1 .. MAX_FRAMES_IN_FLIGHT |-> FenceHandle(k - 1)],
            !.images_in_flight =
                [k \in 1 .. Len(context.swapchain_images) |-> NullHandle]]
    /\ fence_signaled' = [k \in 1 .. MAX_FRAMES_IN_FLIGHT |-> FALSE]
    /\ sem_signaled' = [k \in 1 .. (2 * MAX_FRAMES_IN_FLIGHT) |-> FALSE]
    /\ startup_calls' = startup_calls \o SyncCreateCalls
    /\ pc' = "loop"
    /\ StartupUnchanged

\* VulkanRenderer::create_sync_objects: fences are created SIGNALED, semaphores
\* unsignaled, and images_in_flight holds one null fence per swapchain image.
CreateSyncObjects ==
    /\ pc = "create_sync_objects"
    /\ context' = [context EXCEPT
            !.image_available_semaphores =
                [k \in 1 .. MAX_FRAMES_IN_FLIGHT |-> ImageAvailableHandle(k - 1)],
            !.render_finished_semaphores =
                [k \in 1 .. MAX_FRAMES_IN_FLIGHT |-> RenderFinishedHandle(k - 1)],
            !.in_flight_fences =
                [k \in 1 .. MAX_FRAMES_IN_FLIGHT |-> FenceHandle(k - 1)],
            !.images_in_flight =
                [k \in 1 .. Len(context.swapchain_images) |-> NullHandle]]
    /\ fence_signaled' = [k \in 1 .. MAX_FRAMES_IN_FLIGHT |-> TRUE]
    /\ sem_signaled' = [k \in 1 .. (2 * MAX_FRAMES_IN_FLIGHT) |-> FALSE]
    /\ startup_calls' = startup_calls \o SyncCreateCalls
    /\ pc' = "loop"
    /\ StartupUnchanged

\* Mutant of StartupFail: the step is tried again after its error.
StartupFail_Retry ==
    /\ pc \in Range(StartupSteps)
    /\ pc = "create_instance" => ~MissingLayer
    /\ pc' = pc
    /\ error' = pc
    /\ available_layers' = available_layers
    /\ UNCHANGED <<validation, context, frame, image_index, prev_fence, exiting,
                   redraw_requested, closes, destroy_count, fence_signaled,
                   sem_signaled, acquires, submissions, presents, acquirable,
                   startup_calls, destroy_calls, frame_trace, slots_used,
                   frame_log, acquired, hazard, scan, messages>>

\* Any `?` of VulkanRenderer::new: the error unwinds through Renderer::create
\* and Engine::new, main prints it and no frame is rendered.
StartupFail ==
    /\ pc \in Range(StartupSteps)
    /\ pc = "create_instance" => ~MissingLayer
    /\ pc' = "startup_failed"
    /\ error' = pc
    /\ available_layers' = {}
    /\ UNCHANGED <<validation, context, frame, image_index, prev_fence, exiting,
                   redraw_requested, closes, destroy_count, fence_signaled,
                   sem_signaled, acquires, submissions, presents, acquirable,
                   startup_calls, destroy_calls, frame_trace, slots_used,
                   frame_log, acquired, hazard, scan, messages>>

Startup ==
    \/ EnumerateInstanceLayers \/ MissingValidationLayer \/ InstanceNew
    \/ SwapchainNew \/ DeviceNew \/ SwapchainCreate
    \/ CreateImageViews \/ PipelineCreate \/ FramebufferCreate
    \/ CreateCommandPool \/ CreateCommandBuffers \/ CreateSyncObjects
    \/ StartupFail

(***************************************************************************)
(* The frame: VulkanRenderer::render, one action per driver call.          *)
(***************************************************************************)
NumImages == Len(context.swapchain_images)

\* Ordinal of the render() call in progress (a failed call ends the process).
FrameNo == Len(slots_used) + 1

CurrentFence == At(context.in_flight_fences, frame)

IsSignaled(fence) == fence_signaled[fence]

\* The recordings of a command buffer, in the order they were made.
RecordingsOf(cb) ==
    SelectSeq(startup_calls, LAMBDA c : c.op = "record" /\ c.h = cb)

\* The swapchain image a command buffer draws to: that of the framebuffer it
\* was last recorded against; the framebuffer with handle k+1 is
\* framebuffers[k], which wraps the view of swapchain image k.
ImageOfCommandBuffer(cb) ==
    LET recordings == RecordingsOf(cb)
    IN  recordings[Len(recordings)].framebuffer - 1

\* What a step of render() leaves alone besides pc, frame_trace and what it names.
RenderUnchanged ==
    UNCHANGED <<validation, exiting, redraw_requested, closes, destroy_count,
                startup_calls, destroy_calls, error, scan, available_layers, messages>>

\* Mutant of WaitFrameFence: the fence is reset right after the wait on it,
\* before the acquire.
WaitFrameFence_ResetEarly ==
    /\ pc = "wait_frame_fence"
    /\ IsSignaled(CurrentFence)
    /\ fence_signaled' = [fence_signaled EXCEPT ![CurrentFence] = FALSE]
    /\ frame_trace' = frame_trace \o <<"wait_for_fences", "reset_fences">>
    /\ pc' = "acquire"
    /\ UNCHANGED <<context, frame, image_index, prev_fence, sem_signaled,
                   acquires, submissions, presents, acquirable, slots_used, frame_log, acquired, hazard>>
    /\ RenderUnchanged

\* Mutant of WaitFrameFence: render() goes on without waiting for the frame
\* slot's fence.
WaitFrameFence_NoWait ==
    /\ pc = "wait_frame_fence"
    /\ frame_trace' = Append(frame_trace, "wait_for_fences")
    /\ pc' = "acquire"
    /\ UNCHANGED <<context, frame, image_index, prev_fence, fence_signaled,
                   sem_signaled, acquires, submissions, presents, acquirable, slots_used,
                   frame_log, acquired, hazard>>
    /\ RenderUnchanged

\* lines 94-98: wait_for_fences(in_flight_fences[frame], u64::MAX)
WaitFrameFence ==
    /\ pc = "wait_frame_fence"
    /\ IsSignaled(CurrentFence)
    /\ frame_trace' = Append(frame_trace, "wait_for_fences")
    /\ pc' = "acquire"
    /\ UNCHANGED <<context, frame, image_index, prev_fence, fence_signaled,
                   sem_signaled, acquires, submissions, presents, acquirable, slots_used,
                   frame_log, acquired, hazard>>
    /\ RenderUnchanged

\* lines 100-109: acquire_next_image_khr, called with timeout u64::MAX,
\* returns once the presentation engine has an image to hand out; it returns
\* the index the driver chooses and queues the signal of
\* image_available_semaphores[frame].
Acquire ==
    /\ pc = "acquire"
    /\ acquirable
    /\ \E i \in 0 .. (NumImages - 1) :
          /\ image_index' = i
          /\ frame_log' = [frame_log EXCEPT !.image = i]
          /\ acquired' = acquired \cup {i}
    /\ acquires' = acquires \cup
            {[frame_no |-> FrameNo,
              semaphore |-> At(context.image_available_semaphores, frame)]}
    /\ frame_trace' = Append(frame_trace, "acquire_next_image_khr")
    /\ pc' = "wait_image_fence"
    /\ UNCHANGED <<context, frame, prev_fence, fence_signaled, sem_signaled,
                   submissions, presents, acquirable, slots_used, hazard>>
    /\ RenderUnchanged

\* Mutant of WaitImageFence: the cross-image hazard wait is left out.
WaitImageFence_NoWait ==
    /\ pc = "wait_image_fence"
    /\ prev_fence' = At(context.images_in_flight, image_index)
    /\ pc' = "claim"
    /\ UNCHANGED <<context, frame, image_index, fence_signaled, sem_signaled,
                   acquires, submissions, presents, acquirable, slots_used, frame_log, acquired, hazard,
                   frame_trace>>
    /\ RenderUnchanged

\* lines 111-117: wait on the fence that owns the acquired image, if any
WaitImageFence ==
    /\ pc = "wait_image_fence"
    /\ LET mapped == At(context.images_in_flight, image_index)
       IN  /\ mapped # NullHandle => IsSignaled(mapped)
           /\ prev_fence' = mapped
           /\ frame_trace' = IF mapped # NullHandle
                               THEN Append(frame_trace, "wait_for_fences")
                               ELSE frame_trace
    /\ pc' = "claim"
    /\ UNCHANGED <<context, frame, image_index, fence_signaled, sem_signaled,
                   acquires, submissions, presents, acquirable, slots_used, frame_log, acquired, hazard>>
    /\ RenderUnchanged

\* Mutant of Claim: the map is indexed by the frame slot, not the image.
Claim_BySlot ==
    /\ pc = "claim"
    /\ LET mapped == At(context.images_in_flight, image_index)
       IN  hazard' = [hazard EXCEPT !.claim =
                        @ \/ (mapped # NullHandle /\ ~IsSignaled(mapped))]
    /\ context' = [context EXCEPT
            !.images_in_flight[(frame % NumImages) + 1] = CurrentFence]
    /\ frame_trace' = Append(frame_trace, "claim")
    /\ pc' = "reset_fences"
    /\ UNCHANGED <<frame, image_index, prev_fence, fence_signaled, sem_signaled,
                   acquires, submissions, presents, acquirable, slots_used, frame_log, acquired>>
    /\ RenderUnchanged

\* lines 119-120: images_in_flight[image_index] = in_flight_fences[frame]
Claim ==
    /\ pc = "claim"
    /\ LET mapped == At(context.images_in_flight, image_index)
       IN  hazard' = [hazard EXCEPT !.claim =
                        @ \/ (mapped # NullHandle /\ ~IsSignaled(mapped))]
    /\ context' = [context EXCEPT !.images_in_flight[image_index + 1] = CurrentFence]
    /\ frame_trace' = Append(frame_trace, "claim")
    /\ pc' = "reset_fences"
    /\ UNCHANGED <<frame, image_index, prev_fence, fence_signaled, sem_signaled,
                   acquires, submissions, presents, acquirable, slots_used, frame_log, acquired>>
    /\ RenderUnchanged

\* lines 132-134: reset_fences(in_flight_fences[frame])
ResetFences ==
    /\ pc = "reset_fences"
    /\ fence_signaled' = [fence_signaled EXCEPT ![CurrentFence] = FALSE]
    /\ frame_trace' = Append(frame_trace, "reset_fences")
    /\ pc' = "queue_submit"
    /\ UNCHANGED <<context, frame, image_index, prev_fence, sem_signaled,
                   acquires, submissions, presents, acquirable, slots_used, frame_log, acquired, hazard>>
    /\ RenderUnchanged

\* lines 122-130: the submit info of this frame
SubmitInfo ==
    [ frame_no |-> FrameNo,
      queue |-> context.graphics_queue,
      wait |-> At(context.image_available_semaphores, frame),
      command_buffer |-> At(context.command_buffers, image_index),
      signal |-> At(context.render_finished_semaphores, frame),
      fence |-> CurrentFence,
      executed |-> FALSE ]

\* Mutant of QueueSubmit: the command buffer is recorded again before it is
\* submitted.
QueueSubmit_Rerecord ==
    /\ pc = "queue_submit"
    /\ submissions' = submissions \cup {SubmitInfo}
    /\ startup_calls' = Append(startup_calls,
            RecordCall(At(context.command_buffers, image_index),
                       At(context.framebuffers, image_index)))
    /\ frame_trace' = Append(frame_trace, "queue_submit")
    /\ pc' = "queue_present"
    /\ UNCHANGED <<context, frame, image_index, prev_fence, fence_signaled,
                   sem_signaled, acquires, presents, acquirable, slots_used,
                   frame_log, acquired, hazard>>
    /\ UNCHANGED <<validation, exiting, redraw_requested, closes, destroy_count,
                   destroy_calls, error, scan, available_layers, messages>>

\* lines 136-140: queue_submit(graphics_queue, submit_info, in_flight_fences[frame])
QueueSubmit ==
    /\ pc = "queue_submit"
    /\ submissions' = submissions \cup {SubmitInfo}
    /\ frame_trace' = Append(frame_trace, "queue_submit")
    /\ pc' = "queue_present"
    /\ UNCHANGED <<context, frame, image_index, prev_fence, fence_signaled,
                   sem_signaled, acquires, presents, acquirable, slots_used, frame_log, acquired, hazard>>
    /\ RenderUnchanged

\* Mutant of PresentInfo: the present request waits on no semaphore.
PresentInfo_NoWait ==
    [ frame_no |-> FrameNo,
      queue |-> context.present_queue,
      wait |-> {},
      image |-> image_index ]

\* lines 142-147: the present info of this frame
PresentInfo ==
    [ frame_no |-> FrameNo,
      queue |-> context.present_queue,
      wait |-> {At(context.render_finished_semaphores, frame)},
      image |-> image_index ]

\* Mutant of QueuePresent: the host waits for the draw before it presents.
QueuePresent_AfterDraw ==
    /\ pc = "queue_present"
    /\ \A s \in submissions : s.executed
    /\ presents' = presents \cup {PresentInfo}
    /\ frame_trace' = Append(frame_trace, "queue_present_khr")
    /\ pc' = "queue_wait_idle"
    /\ UNCHANGED <<context, frame, image_index, prev_fence, fence_signaled,
                   sem_signaled, acquires, submissions, acquirable, slots_used,
                   frame_log, acquired, hazard>>
    /\ RenderUnchanged

\* lines 149-151: queue_present_khr(present_queue, present_info)
QueuePresent ==
    /\ pc = "queue_present"
    /\ presents' = presents \cup {PresentInfo}
    /\ frame_trace' = Append(frame_trace, "queue_present_khr")
    /\ pc' = "queue_wait_idle"
    /\ UNCHANGED <<context, frame, image_index, prev_fence, fence_signaled,
                   sem_signaled, acquires, submissions, acquirable, slots_used,
                   frame_log, acquired, hazard>>
    /\ RenderUnchanged

\* The driver has nothing left to do on queue q.
QueueIdle(q) ==
    /\ \A p \in presents : p.queue # q
    /\ \A s \in submissions : s.queue # q

\* Mutant of QueueWaitIdle: render() goes on without waiting for the
\* presentation queue.
QueueWaitIdle_NoWait ==
    /\ pc = "queue_wait_idle"
    /\ frame_trace' = Append(frame_trace, "queue_wait_idle")
    /\ pc' = "advance"
    /\ UNCHANGED <<context, frame, image_index, prev_fence, fence_signaled,
                   sem_signaled, acquires, submissions, presents, acquirable,
                   slots_used, frame_log, acquired, hazard>>
    /\ RenderUnchanged

\* lines 152-154: queue_wait_idle(present_queue)
QueueWaitIdle ==
    /\ pc = "queue_wait_idle"
    /\ QueueIdle(context.present_queue)
    /\ frame_trace' = Append(frame_trace, "queue_wait_idle")
    /\ pc' = "advance"
    /\ UNCHANGED <<context, frame, image_index, prev_fence, fence_signaled,
                   sem_signaled, acquires, submissions, presents, acquirable, slots_used,
                   frame_log, acquired, hazard>>
    /\ RenderUnchanged

\* Mutant of Advance: the frame slot is not advanced.
Advance_SameSlot ==
    /\ pc = "advance"
    /\ frame' = frame
    /\ slots_used' = Append(slots_used, frame)
    /\ image_index' = 0
    /\ prev_fence' = NullHandle
    /\ pc' = "loop"
    /\ UNCHANGED <<context, fence_signaled, sem_signaled, acquires, submissions,
                   presents, acquirable, frame_trace, frame_log, acquired, hazard>>
    /\ RenderUnchanged

\* lines 156-158: frame = (frame + 1) % MAX_FRAMES_IN_FLIGHT; Ok(())
Advance ==
    /\ pc = "advance"
    /\ frame' = (frame + 1) % MAX_FRAMES_IN_FLIGHT
    /\ slots_used' = Append(slots_used, frame)
    /\ image_index' = 0
    /\ prev_fence' = NullHandle
    /\ pc' = "loop"
    /\ UNCHANGED <<context, fence_signaled, sem_signaled, acquires, submissions,
                   presents, acquirable, frame_trace, frame_log, acquired, hazard>>
    /\ RenderUnchanged

\* The steps of render() whose driver call returns a Result.
FallibleSteps ==
    {"wait_frame_fence", "acquire", "wait_image_fence", "reset_fences",
     "queue_submit", "queue_present", "queue_wait_idle"}

\* Mutant of RenderFail: the error is swallowed and the frame is tried again.
RenderFail_Retry ==
    /\ pc \in FallibleSteps
    /\ pc = "wait_image_fence" => At(context.images_in_flight, image_index) # NullHandle
    /\ error' = pc
    /\ pc' = "wait_frame_fence"
    /\ frame_trace' = <<>>
    /\ UNCHANGED <<validation, context, frame, image_index, prev_fence, exiting,
                   redraw_requested, closes, destroy_count, fence_signaled,
                   sem_signaled, acquires, submissions, presents, acquirable,
                   startup_calls, destroy_calls, slots_used, frame_log, acquired,
                   hazard, scan, available_layers, messages>>

\* Mutant of RenderFail: the frame slot is advanced although the call failed.
RenderFail_AdvanceSlot ==
    /\ pc \in FallibleSteps
    /\ pc = "wait_image_fence" => At(context.images_in_flight, image_index) # NullHandle
    /\ error' = pc
    /\ pc' = "panicked"
    /\ frame' = (frame + 1) % MAX_FRAMES_IN_FLIGHT
    /\ UNCHANGED <<validation, context, image_index, prev_fence, exiting,
                   redraw_requested, closes, destroy_count, fence_signaled,
                   sem_signaled, acquires, submissions, presents, acquirable,
                   startup_calls, destroy_calls, frame_trace, slots_used,
                   frame_log, acquired, hazard, scan, available_layers, messages>>

\* A driver call of render() fails: `?` returns the error at once, and the
\* unwrap() of Engine::run panics.  The hazard wait is only made for a
\* non-null fence.
RenderFail ==
    /\ pc \in FallibleSteps
    /\ pc = "wait_image_fence" => At(context.images_in_flight, image_index) # NullHandle
    /\ error' = pc
    /\ pc' = "panicked"
    /\ UNCHANGED <<validation, context, frame, image_index, prev_fence, exiting,
                   redraw_requested, closes, destroy_count, fence_signaled,
                   sem_signaled, acquires, submissions, presents, acquirable, startup_calls,
                   destroy_calls, frame_trace, slots_used, frame_log, acquired, hazard,
                   scan, available_layers, messages>>

\* The steps of render() that succeed.
RenderStep ==
    \/ WaitFrameFence \/ Acquire \/ WaitImageFence \/ Claim \/ ResetFences
    \/ QueueSubmit \/ QueuePresent \/ QueueWaitIdle \/ Advance

(***************************************************************************)
(* The driver and the GPU: they carry out what render() queued, in         *)
(* parallel with the control thread, for as long as the process runs and   *)
(* the device exists.                                                      *)
(***************************************************************************)
Terminal == {"startup_failed", "panicked", "stopped", "crashed"}

DeviceAlive == pc \notin Terminal /\ destroy_count = 0

\* The log of the frame in progress with one more GPU stage recorded; work of
\* an earlier render() call is not part of it.
LogIfCurrent(frame_no, stage, value) ==
    IF frame_no = FrameNo THEN [frame_log EXCEPT ![stage] = value] ELSE frame_log

\* The presentation engine hands the acquired image over: the image-available
\* semaphore named by the acquire is signaled.
GpuSignalAcquire ==
    /\ DeviceAlive
    /\ \E a \in acquires :
          /\ acquires' = acquires \ {a}
          /\ sem_signaled' = [sem_signaled EXCEPT ![a.semaphore] = TRUE]
          /\ frame_log' = LogIfCurrent(a.frame_no, "available", TRUE)
    /\ UNCHANGED <<fence_signaled, submissions, presents, acquirable, hazard>>
    /\ UNCHANGED cpu_vars

\* The graphics queue runs a submitted command buffer once its wait semaphore
\* is signaled (the wait unsignals it) and signals the signal semaphore.
GpuExecute ==
    /\ DeviceAlive
    /\ \E s \in submissions :
          /\ ~s.executed
          /\ sem_signaled[s.wait]
          /\ sem_signaled' = [sem_signaled EXCEPT ![s.wait] = FALSE,
                                                  ![s.signal] = TRUE]
          /\ submissions' = (submissions \ {s}) \cup {[s EXCEPT !.executed = TRUE]}
          /\ frame_log' = LogIfCurrent(s.frame_no, "drawn",
                                       ImageOfCommandBuffer(s.command_buffer))
    /\ UNCHANGED <<fence_signaled, acquires, presents, acquirable, hazard>>
    /\ UNCHANGED cpu_vars

\* The submission completes: its fence is signaled.
GpuSignalFence ==
    /\ DeviceAlive
    /\ \E s \in submissions :
          /\ s.executed
          /\ fence_signaled' = [fence_signaled EXCEPT ![s.fence] = TRUE]
          /\ submissions' = submissions \ {s}
    /\ UNCHANGED <<sem_signaled, acquires, presents, acquirable, frame_log, hazard>>
    /\ UNCHANGED cpu_vars

\* The presentation engine carries out a present request once its wait
\* semaphores are signaled (the wait unsignals them).  From then on it has
\* no image to hand out until it lets one go (GpuRelease, at any later time).
GpuPresent ==
    /\ DeviceAlive
    /\ \E p \in presents :
          /\ \A w \in p.wait : sem_signaled[w]
          /\ sem_signaled' = [h \in DOMAIN sem_signaled |->
                                IF h \in p.wait THEN FALSE ELSE sem_signaled[h]]
          /\ presents' = presents \ {p}
          /\ frame_log' = LogIfCurrent(p.frame_no, "shown", p.image)
    /\ acquirable' = FALSE
    /\ UNCHANGED <<fence_signaled, acquires, submissions, hazard>>
    /\ UNCHANGED cpu_vars

\* The presentation engine lets an image go: the next acquire can return.
GpuRelease ==
    /\ DeviceAlive
    /\ ~acquirable
    /\ acquirable' = TRUE
    /\ UNCHANGED <<fence_signaled, sem_signaled, acquires, submissions, presents,
                   frame_log, hazard>>
    /\ UNCHANGED cpu_vars

Gpu ==
    \/ GpuSignalAcquire
    \/ GpuExecute
    \/ GpuSignalFence
    \/ GpuPresent
    \/ GpuRelease

(***************************************************************************)
(* Shutdown: VulkanRenderer::destroy and the destroy functions it calls.   *)
(***************************************************************************)
\* VulkanPipeline::destroy (pipeline.rs 141-156)
PipelineDestroy ==
    <<Call("destroy", "command_pool", context.command_pool)>>
    \o ForEach("destroy", "framebuffer", context.framebuffers)
    \o << Call("destroy", "pipeline", context.pipeline),
          Call("destroy", "pipeline_layout", context.pipeline_layout),
          Call("destroy", "render_pass", context.render_pass) >>

\* VulkanDevice::destroy (device.rs 153-161)
DeviceDestroy ==
    ForEach("destroy", "image_view", context.swapchain_image_views)
    \o << Call("destroy", "swapchain", context.swapchain),
          Call("destroy", "device", 1) >>

\* VulkanInstance::destroy (instance.rs 113-120)
InstanceDestroy ==
    <<Call("destroy", "surface", context.surface)>>
    \o (IF validation
          THEN <<Call("destroy", "debug_messenger", context.messenger)>>
          ELSE <<>>)
    \o <<Call("destroy", "instance", 1)>>

\* Mutant of RendererDestroy: the device (with the image views and the
\* swapchain) is destroyed before the objects VulkanPipeline::destroy releases.
RendererDestroy_DeviceFirst ==
    ForEach("destroy", "fence", context.in_flight_fences)
    \o ForEach("destroy", "semaphore", context.render_finished_semaphores)
    \o ForEach("destroy", "semaphore", context.image_available_semaphores)
    \o << Call("destroy", "semaphore", context.render_finished_semaphore),
          Call("destroy", "semaphore", context.image_available_semaphore) >>
    \o DeviceDestroy
    \o PipelineDestroy
    \o InstanceDestroy

\* VulkanRenderer::destroy (mod.rs 161-183): the driver calls it makes, in order.
RendererDestroy ==
    ForEach("destroy", "fence", context.in_flight_fences)
    \o ForEach("destroy", "semaphore", context.render_finished_semaphores)
    \o ForEach("destroy", "semaphore", context.image_available_semaphores)
    \o << Call("destroy", "semaphore", context.render_finished_semaphore),
          Call("destroy", "semaphore", context.image_available_semaphore) >>
    \o PipelineDestroy
    \o DeviceDestroy
    \o InstanceDestroy

\* Work the GPU has been given and has not finished.
GpuBusy == acquires # {} \/ submissions # {} \/ presents # {}

(***************************************************************************)
(* The event loop: the closure of Engine::run, one action per event.       *)
(***************************************************************************)
\* Event::AboutToWait => window.request_redraw()
AboutToWait ==
    /\ pc = "loop"
    /\ redraw_requested' = TRUE
    /\ UNCHANGED <<validation, pc, context, frame, image_index, prev_fence,
                   exiting, closes, destroy_count, fence_signaled, sem_signaled,
                   acquires, submissions, presents, acquirable, startup_calls, destroy_calls,
                   frame_trace, slots_used, frame_log, acquired, hazard, error,
                   scan, available_layers, messages>>

\* The guard of the RedrawRequested arm.
MayRender == ~exiting

\* WindowEvent::RedrawRequested if !elwt.exiting() => render(); otherwise the
\* event falls through to `_ => {}`.
RedrawRequested ==
    /\ pc = "loop"
    /\ redraw_requested' = FALSE
    /\ IF MayRender
         THEN /\ Len(slots_used) < MaxFrames
              /\ pc' = "wait_frame_fence"
              /\ frame_trace' = <<>>
              /\ frame_log' = NewFrameLog
         ELSE UNCHANGED <<pc, frame_trace, frame_log>>
    /\ UNCHANGED <<validation, context, frame, image_index, prev_fence, exiting,
                   closes, destroy_count, fence_signaled, sem_signaled, acquires,
                   submissions, presents, acquirable, startup_calls, destroy_calls,
                   slots_used, acquired, hazard, error, scan, available_layers, messages>>

\* WindowEvent::CloseRequested => { elwt.exit(); renderer.destroy(); }
\* destroy() on handles that were destroyed before is undefined behaviour: the
\* process either survives the calls or crashes in the driver.
CloseRequested ==
    /\ pc = "loop"
    /\ closes < MaxClose
    /\ closes' = closes + 1
    /\ exiting' = TRUE
    /\ destroy_calls' = RendererDestroy
    /\ destroy_count' = destroy_count + 1
    /\ hazard' = [hazard EXCEPT
                    !.destroy_pending = @ \/ (destroy_count = 0 /\ GpuBusy),
                    !.use_after_destroy = @ \/ destroy_count > 0]
    /\ pc' \in IF destroy_count > 0 THEN {"loop", "crashed"} ELSE {"loop"}
    /\ UNCHANGED <<validation, context, frame, image_index, prev_fence,
                   redraw_requested, fence_signaled, sem_signaled, acquires,
                   submissions, presents, acquirable, startup_calls, frame_trace, slots_used,
                   frame_log, acquired, error, scan, available_layers, messages>>

\* The event loop returns once exit() was requested; Engine::run returns Ok.
EventLoopExit ==
    /\ pc = "loop"
    /\ exiting
    /\ pc' = "stopped"
    /\ UNCHANGED <<validation, context, frame, image_index, prev_fence, exiting,
                   redraw_requested, closes, destroy_count, fence_signaled,
                   sem_signaled, acquires, submissions, presents, acquirable, startup_calls,
                   destroy_calls, frame_trace, slots_used, frame_log, acquired, hazard, error,
                   scan, available_layers, messages>>

EventLoop == AboutToWait \/ RedrawRequested \/ CloseRequested \/ EventLoopExit

Next == Startup \/ EventLoop \/ RenderStep \/ RenderFail \/ Gpu

Spec == Init /\ [][Next]_vars

(***************************************************************************)
(* VulkanDevice::new in detail: the scan of pick_physical_device, one      *)
(* action per adapter examined, and the creation of the logical device.    *)
(* DeviceNew above is its summary for the frame model; this specification  *)
(* starts where VulkanRenderer::new calls VulkanDevice::new (mod.rs:44).   *)
(***************************************************************************)
DeviceInit ==
    /\ validation \in BOOLEAN
    /\ pc = "device_new"
    /\ context = [EmptyContext EXCEPT
                    !.messenger = IF validation THEN 1 ELSE NullHandle,
                    !.surface = 1]
    /\ startup_calls =
            <<Call("create", "instance", 1)>>
            \o (IF validation THEN <<Call("create", "debug_messenger", 1)>> ELSE <<>>)
            \o <<Call("create", "surface", 1)>>
    /\ frame = 0
    /\ image_index = 0
    /\ prev_fence = NullHandle
    /\ exiting = FALSE
    /\ redraw_requested = FALSE
    /\ closes = 0
    /\ destroy_count = 0
    /\ fence_signaled = <<>>
    /\ sem_signaled = <<>>
    /\ acquires = {}
    /\ submissions = {}
    /\ presents = {}
    /\ acquirable = TRUE
    /\ destroy_calls = <<>>
    /\ frame_trace = <<>>
    /\ slots_used = <<>>
    /\ frame_log = NewFrameLog
    /\ acquired = {}
    /\ hazard = NoHazard
    /\ error = "none"
    /\ scan = NoScan
    /\ available_layers = {}
    /\ messages = <<>>

\* What a step of VulkanDevice::new leaves alone besides pc, context, scan,
\* startup_calls and error.
DeviceUnchanged ==
    UNCHANGED <<validation, frame, image_index, prev_fence, exiting,
                redraw_requested, closes, destroy_count, fence_signaled,
                sem_signaled, acquires, submissions, presents, acquirable,
                destroy_calls, frame_trace, slots_used, frame_log, acquired,
                hazard, available_layers, messages>>

\* What the adapter has, whatever the queries on it were answered: a graphics
\* family, a family that can present, every required extension, and at least
\* one surface format and one present mode.
Suitable(physical_device) ==
    /\ \E k \in 1 .. Len(physical_device.families) :
          physical_device.families[k].graphics
    /\ \E k \in 1 .. Len(physical_device.families) :
          physical_device.families[k].present = "yes"
    /\ DEVICE_EXTENSIONS \subseteq physical_device.extensions.names
    /\ physical_device.support.formats > 0
    /\ physical_device.support.present_modes > 0

\* device.rs 29: enumerate_physical_devices returns the adapters.
EnumeratePhysicalDevices ==
    /\ pc = "device_new"
    /\ scan.stage = "idle"
    /\ \E n \in 0 .. MaxAdapters :
          scan' = [scan EXCEPT !.stage = "scan", !.count = n]
    /\ UNCHANGED <<pc, context, startup_calls, error>>
    /\ DeviceUnchanged

\* device.rs 29: enumerate_physical_devices fails; `?` returns the error from
\* pick_physical_device and from VulkanDevice::new.
EnumerateFail ==
    /\ pc = "device_new"
    /\ scan.stage = "idle"
    /\ scan' = [scan EXCEPT !.stage = "pick_failed"]
    /\ pc' = "startup_failed"
    /\ error' = "device_new"
    /\ UNCHANGED <<context, startup_calls>>
    /\ DeviceUnchanged

\* Mutant of ExaminePhysicalDevice: the error of check_physical_device is
\* returned with `?` instead of being logged, so the scan ends at the first
\* adapter that fails.
ExaminePhysicalDevice_Propagate ==
    /\ pc = "device_new"
    /\ scan.stage = "scan"
    /\ Len(scan.examined) < scan.count
    /\ \E physical_device \in PhysicalDevices :
          LET result == CheckPhysicalDevice(physical_device)
              handle == Len(scan.examined) + 1
          IN  /\ scan' = [scan EXCEPT
                    !.physical_device = IF result = "none" THEN physical_device
                                        ELSE NoPhysicalDevice,
                    !.examined = Append(@, [error |-> result,
                                            suitable |-> Suitable(physical_device)]),
                    !.stage = IF result = "none" THEN "picked" ELSE "pick_failed"]
              /\ context' = IF result = "none"
                              THEN [context EXCEPT !.physical_device = handle]
                              ELSE context
              /\ pc' = IF result = "none" THEN pc ELSE "startup_failed"
              /\ error' = IF result = "none" THEN error ELSE "device_new"
    /\ UNCHANGED startup_calls
    /\ DeviceUnchanged

\* device.rs 30-45, the body of the loop for the next adapter: the driver
\* reports it, check_physical_device decides; an error is logged and the loop
\* goes on (the loop variable is gone), Ok records the adapter in the context
\* and returns.
ExaminePhysicalDevice ==
    /\ pc = "device_new"
    /\ scan.stage = "scan"
    /\ Len(scan.examined) < scan.count
    /\ \E physical_device \in PhysicalDevices :
          LET result == CheckPhysicalDevice(physical_device)
              handle == Len(scan.examined) + 1
          IN  /\ scan' = [scan EXCEPT
                    !.physical_device = IF result = "none" THEN physical_device
                                        ELSE NoPhysicalDevice,
                    !.examined = Append(@, [error |-> result,
                                            suitable |-> Suitable(physical_device)]),
                    !.stage = IF result = "none" THEN "picked" ELSE "scan"]
              /\ context' = IF result = "none"
                              THEN [context EXCEPT !.physical_device = handle]
                              ELSE context
    /\ UNCHANGED <<pc, startup_calls, error>>
    /\ DeviceUnchanged

\* device.rs 47: the loop ended without a match.
PickFail ==
    /\ pc = "device_new"
    /\ scan.stage = "scan"
    /\ Len(scan.examined) = scan.count
    /\ scan' = [scan EXCEPT !.stage = "pick_failed"]
    /\ pc' = "startup_failed"
    /\ error' = "device_new"
    /\ UNCHANGED <<context, startup_calls>>
    /\ DeviceUnchanged

\* Mutant of Collected: one request for the graphics and one for the present
\* family, without the HashSet.
Collected_NoDedupe(unique_indices) ==
    {v \in [1 .. 2 -> unique_indices] : Range(v) = unique_indices}

\* The Vecs a HashSet of family indices can be collected into: each index
\* once, in any order.
Collected(unique_indices) ==
    {v \in [1 .. Cardinality(unique_indices) -> unique_indices] :
        Range(v) = unique_indices}

\* device.rs 96-150, after the adapter was picked: the queue family indices of
\* the adapter, one DeviceQueueCreateInfo per distinct index, create_device,
\* and the two queue handles from get_device_queue(family, 0).
CreateDevice ==
    /\ pc = "device_new"
    /\ scan.stage = "picked"
    /\ LET indices == QueueFamilyIndicesGet(scan.physical_device.families)
           unique_indices == {indices.graphics, indices.present}
       IN  /\ indices.error = "none"
           /\ \E queue_infos \in Collected(unique_indices) :
                 scan' = [scan EXCEPT
                    !.stage = "created",
                    !.queue_infos = queue_infos,
                    !.queue_gets = << <<indices.graphics, 0>>,
                                      <<indices.present, 0>> >>]
           /\ context' = [context EXCEPT
                    !.graphics_queue = GetDeviceQueue(indices.graphics),
                    !.present_queue = GetDeviceQueue(indices.present)]
    /\ startup_calls' = Append(startup_calls, Call("create", "device", 1))
    /\ pc' = "swapchain_create"
    /\ UNCHANGED error
    /\ DeviceUnchanged

\* device.rs 96-145: QueueFamilyIndices::get or create_device fails after the
\* adapter was picked; `?` returns the error.
CreateDeviceFail ==
    /\ pc = "device_new"
    /\ scan.stage = "picked"
    /\ scan' = [scan EXCEPT !.stage = "create_failed"]
    /\ pc' = "startup_failed"
    /\ error' = "device_new"
    /\ UNCHANGED <<context, startup_calls>>
    /\ DeviceUnchanged

DeviceNext ==
    \/ EnumeratePhysicalDevices
    \/ EnumerateFail
    \/ ExaminePhysicalDevice
    \/ PickFail
    \/ CreateDevice
    \/ CreateDeviceFail

DeviceSpec == DeviceInit /\ [][DeviceNext]_vars

(***************************************************************************)
(* Properties                                                              *)
(***************************************************************************)
RenderPcs ==
    {"wait_frame_fence", "acquire", "wait_image_fence", "claim", "reset_fences",
     "queue_submit", "queue_present", "queue_wait_idle", "advance"}

\* The submissions in flight that drew to swapchain image i.
InFlightOn(i) == {s \in submissions : ImageOfCommandBuffer(s.command_buffer) = i}

\* C1 (as stated): when queue_submit is about to be issued for the acquired
\* image, no earlier submission that used the image is still in flight and the
\* fence images_in_flight held for the image before the claim is signaled (or
\* the entry was null).
C1_Original ==
    pc = "queue_submit" =>
        /\ InFlightOn(image_index) = {}
        /\ prev_fence = NullHandle \/ IsSignaled(prev_fence)

\* C1 (amended): when queue_submit is about to be issued for the acquired
\* image, no earlier submission that used the image is still in flight; the
\* fence images_in_flight held for the image before the claim was null or
\* signaled when the claim was made, and at the submit it is still signaled
\* unless it is the frame slot's own fence, which this frame has just reset.
C1_SubmitAfterPreviousUse ==
    /\ pc \in {"claim", "reset_fences"} =>
            prev_fence = NullHandle \/ IsSignaled(prev_fence)
    /\ pc = "queue_submit" =>
            /\ InFlightOn(image_index) = {}
            /\ \/ prev_fence = NullHandle
               \/ IsSignaled(prev_fence)
               \/ prev_fence = CurrentFence

\* C1 witness: a submit for an image last used by the other frame slot.
C1_Witness ==
    /\ pc = "queue_submit"
    /\ prev_fence # NullHandle
    /\ prev_fence # CurrentFence

\* C2: at most MAX_FRAMES_IN_FLIGHT submitted frames are incomplete, and at
\* most MAX_FRAMES_IN_FLIGHT frame-slot fences are unsignaled.
C2_FramesInFlightBounded ==
    /\ Cardinality(submissions) <= MAX_FRAMES_IN_FLIGHT
    /\ Cardinality({f \in DOMAIN fence_signaled : ~fence_signaled[f]})
            <= MAX_FRAMES_IN_FLIGHT
    /\ \A s \in submissions : ~IsSignaled(s.fence)

\* C2 witness: MAX_FRAMES_IN_FLIGHT frames are in flight at once.
C2_Witness ==
    /\ Cardinality(submissions) = MAX_FRAMES_IN_FLIGHT
    /\ \A f \in DOMAIN fence_signaled : ~fence_signaled[f]

\* C3 (as stated): the shutdown handler waits for the device to be idle before
\* its first destroy call, and nothing is destroyed while the GPU still has
\* work that was given to it.
C3_IdleWaitBeforeDestroy ==
    destroy_count > 0 =>
        /\ Head(destroy_calls).op = "device_wait_idle"
        /\ ~hazard.destroy_pending

\* C4 (as stated): once CloseRequested has been handled no frame is started or
\* in progress, and no driver call is made on an object that was destroyed.
C4_NoCallAfterShutdown ==
    /\ exiting => pc \notin RenderPcs
    /\ destroy_count > 0 => pc \notin RenderPcs
    /\ ~hazard.use_after_destroy

\* The part of C4 that does not depend on how often CloseRequested arrives:
\* render() does not run once the close was handled.
NoRenderAfterClose == (exiting \/ destroy_count > 0) => pc \notin RenderPcs

Reverse(s) == [k \in 1 .. Len(s) |-> s[Len(s) + 1 - k]]

\* The class of objects a call is about; fences and semaphores are the
\* synchronization objects of the frame slots.
ClassOf(call) == IF call.kind \in {"fence", "semaphore"} THEN "sync" ELSE call.kind

\* The classes of a trace in order, each run of calls on one class once.
Classes(trace) ==
    LET first(k) == k = 1 \/ ClassOf(trace[k]) # ClassOf(trace[k - 1])
        starts == SelectSeq([k \in 1 .. Len(trace) |-> k], first)
    IN  [j \in 1 .. Len(starts) |-> ClassOf(trace[starts[j]])]

\* The create calls of a trace whose object the trace does not destroy again.
Retained(trace) ==
    LET gone == {<<trace[k].kind, trace[k].h>> :
                    k \in {j \in 1 .. Len(trace) : trace[j].op = "destroy"}}
        keep(c) == c.op = "create" /\ <<c.kind, c.h>> \notin gone
    IN  SelectSeq(trace, keep)

DestroyOrder ==
    <<"sync", "command_pool", "framebuffer", "pipeline", "pipeline_layout",
      "render_pass", "image_view", "swapchain", "device", "surface">>
    \o (IF validation THEN <<"debug_messenger">> ELSE <<>>)
    \o <<"instance">>

\* C5: the destroy calls of shutdown run through the object classes in the
\* exact reverse of the order in which start-up created them: synchronization
\* objects, command pool, framebuffers, pipeline, pipeline layout, render pass,
\* image views, swapchain, device, surface, debug messenger, instance.
C5_DestroyReversesCreate ==
    destroy_count > 0 =>
        /\ \A k \in 1 .. Len(destroy_calls) : destroy_calls[k].op = "destroy"
        /\ Classes(destroy_calls) = Reverse(Classes(Retained(startup_calls)))
        /\ Classes(destroy_calls) = DestroyOrder

\* C5 witness: shutdown after a start-up with validation and several images.
C5_Witness ==
    /\ destroy_count = 1
    /\ validation
    /\ NumImages > 1
    /\ Len(slots_used) > 0

\* Positions of a step in the trace of the render() call.
Positions(step) == {k \in 1 .. Len(frame_trace) : frame_trace[k] = step}

\* The order of the fence reset within one render() call: one reset at most,
\* after every fence wait and after the claim, with queue_submit as the very
\* next driver call.
ResetJustBeforeSubmit ==
    /\ Cardinality(Positions("reset_fences")) <= 1
    /\ \A r \in Positions("reset_fences") :
          /\ \A k \in Positions("wait_for_fences") \cup Positions("claim") : k < r
          /\ Positions("claim") # {}
          /\ r < Len(frame_trace) => frame_trace[r + 1] = "queue_submit"
    /\ \A q \in Positions("queue_submit") : q > 1 /\ frame_trace[q - 1] = "reset_fences"
    /\ pc = "queue_submit" => frame_trace[Len(frame_trace)] = "reset_fences"

\* A submission that will signal the fence is pending.
SignalPending(fence) == \E s \in submissions : s.fence = fence

\* The submission that will signal the fence is the next driver call.
SubmitNext(fence) == pc = "queue_submit" /\ fence = CurrentFence

\* C6 (as stated): the frame slot's fence is reset after both fence waits and
\* the claim, immediately before queue_submit and never after it; a fence is
\* unsignaled only while a submission that will signal it is pending or about
\* to be issued.
C6_Original ==
    /\ ResetJustBeforeSubmit
    /\ \A fence \in DOMAIN fence_signaled :
          ~IsSignaled(fence) => SignalPending(fence) \/ SubmitNext(fence)

\* queue_submit failed after the reset: render() returned the error.
SubmitFailed(fence) ==
    pc = "panicked" /\ error = "queue_submit" /\ fence = CurrentFence

\* C6 (amended): the frame slot's fence is reset after both fence waits and the
\* claim, immediately before queue_submit and never after it; a fence is
\* unsignaled only while a submission that will signal it is pending or about
\* to be issued, or after queue_submit itself failed, when render() returns the
\* error with the fence left unsignaled.
C6_ResetJustBeforeSubmit ==
    /\ ResetJustBeforeSubmit
    /\ \A fence \in DOMAIN fence_signaled :
          ~IsSignaled(fence) =>
              SignalPending(fence) \/ SubmitNext(fence) \/ SubmitFailed(fence)

\* C6 witness: in a later frame the fence was reset and the submit that
\* signals it was issued.
C6_Witness ==
    /\ Len(slots_used) >= MAX_FRAMES_IN_FLIGHT
    /\ pc = "queue_present"
    /\ ~IsSignaled(CurrentFence)
    /\ Positions("wait_for_fences") = {1, 3}

\* Frame slot of the n-th render() call.
SlotOf(n) == (n - 1) % MAX_FRAMES_IN_FLIGHT

\* C7: per frame the GPU runs acquire, then the draw, then the present, on the
\* acquired image: the draw runs only after the acquire signaled the slot's
\* image-available semaphore, the present only after the draw signaled the
\* slot's render-finished semaphore, and both name the acquired image.
C7_AcquireDrawPresent ==
    /\ frame_log.drawn # -1 =>
          frame_log.available /\ frame_log.drawn = frame_log.image
    /\ frame_log.shown # -1 =>
          frame_log.drawn # -1 /\ frame_log.shown = frame_log.image
    /\ \A s \in submissions :
          /\ s.wait = At(context.image_available_semaphores, SlotOf(s.frame_no))
          /\ s.signal = At(context.render_finished_semaphores, SlotOf(s.frame_no))
          /\ ~s.executed =>
                /\ s.frame_no = FrameNo
                /\ ImageOfCommandBuffer(s.command_buffer) = frame_log.image
    /\ \A p \in presents :
          /\ p.frame_no = FrameNo
          /\ p.wait = {At(context.render_finished_semaphores, SlotOf(p.frame_no))}
          /\ p.image = frame_log.image

\* C7 witness: a frame that reuses a frame slot was drawn and presented.
C7_Witness ==
    /\ Len(slots_used) >= MAX_FRAMES_IN_FLIGHT
    /\ pc = "queue_wait_idle"
    /\ frame_log.shown # -1

\* C8: the frame slot starts at 0, advances by one modulo MAX_FRAMES_IN_FLIGHT
\* with every successful render() and stays below MAX_FRAMES_IN_FLIGHT.
C8_FrameSlotCycles ==
    /\ frame \in Slots
    /\ frame = Len(slots_used) % MAX_FRAMES_IN_FLIGHT
    /\ \A k \in 1 .. Len(slots_used) : slots_used[k] = (k - 1) % MAX_FRAMES_IN_FLIGHT

\* C8 witness: after three frames the slots used were 0, 1, 0.
C8_Witness == slots_used = <<0, 1, 0>> /\ frame = 1

\* Four frames were rendered on three swapchain images and no fifth was begun.
ScenarioB ==
    /\ NumImages = 3
    /\ Len(slots_used) = 4
    /\ pc \in {"loop", "stopped", "crashed"}

\* C9 (as stated): after 4 frames on 3 images the slots used were 0,1,0,1,
\* every images_in_flight entry is non-null, and no claim was made while the
\* fence mapped before was unsignaled.
C9_Original ==
    ScenarioB =>
        /\ slots_used = <<0, 1, 0, 1>>
        /\ \A i \in 0 .. (NumImages - 1) :
              At(context.images_in_flight, i) # NullHandle
        /\ ~hazard.claim

\* C9 (amended): after 4 frames on 3 images the slots used were 0,1,0,1, the
\* images_in_flight entries that are non-null are exactly those of the images
\* the driver handed out in these frames (all 3 only if it handed out each),
\* each names a frame-slot fence, and no claim was made while the fence mapped
\* before was unsignaled.
C9_ScenarioB ==
    ScenarioB =>
        /\ slots_used = <<0, 1, 0, 1>>
        /\ \A i \in 0 .. (NumImages - 1) :
              /\ At(context.images_in_flight, i) # NullHandle <=> i \in acquired
              /\ At(context.images_in_flight, i)
                    \in {NullHandle} \cup Range(context.in_flight_fences)
        /\ ~hazard.claim

\* C9 witness: the driver handed out all three images in the four frames.
C9_Witness ==
    /\ ScenarioB
    /\ \A i \in 0 .. (NumImages - 1) : At(context.images_in_flight, i) # NullHandle

\* C10 (as stated): render() can be kept from going on only at its two fence
\* waits; at every other step the control thread can take the step at once.
C10_Original ==
    pc \in RenderPcs \ {"wait_frame_fence", "wait_image_fence"} =>
        ENABLED RenderStep

\* C10 (amended): render() can be kept from going on only at its two fence
\* waits, at the acquire (which waits without timeout for an image) and at
\* the queue_wait_idle on the present queue that follows the present; claim,
\* reset, submit, present and advance never wait.
C10_BlockingSteps ==
    pc \in RenderPcs \ {"wait_frame_fence", "acquire", "wait_image_fence",
                        "queue_wait_idle"} =>
        ENABLED RenderStep

\* C10 witness: render() is held at queue_wait_idle while the present of the
\* frame is pending.
C10_Witness ==
    /\ pc = "queue_wait_idle"
    /\ presents # {}
    /\ ~ENABLED RenderStep

\* The steps of render() in program order, and the driver call each one makes.
RenderOrder ==
    <<"wait_frame_fence", "acquire", "wait_image_fence", "claim", "reset_fences",
      "queue_submit", "queue_present", "queue_wait_idle", "advance">>

CallOf ==
    [ wait_frame_fence |-> "wait_for_fences",
      acquire |-> "acquire_next_image_khr",
      wait_image_fence |-> "wait_for_fences",
      claim |-> "claim",
      reset_fences |-> "reset_fences",
      queue_submit |-> "queue_submit",
      queue_present |-> "queue_present_khr",
      queue_wait_idle |-> "queue_wait_idle" ]

StepNo(step) == CHOOSE k \in 1 .. Len(RenderOrder) : RenderOrder[k] = step

\* The calls render() has made when it reaches `step`; the hazard wait is made
\* only when the acquired image had a fence mapped.
CallsBefore(step, hazard_wait) ==
    LET before == SubSeq(RenderOrder, 1, StepNo(step) - 1)
        made == SelectSeq(before, LAMBDA s : s # "wait_image_fence" \/ hazard_wait)
    IN  [k \in 1 .. Len(made) |-> CallOf[made[k]]]

\* C11: when a fence wait, the acquire, the fence reset, the submit or the
\* present of render() fails, render() returns that error: the calls made in
\* the frame are exactly those before the failed one and none after it, the
\* frame slot index is the one the frame started with, nothing is handed to
\* the driver for a later step, and the unwrap() in the event loop ends the
\* process: no step of any kind follows (no retry, no recreation).
C11_RenderErrorIsFatal ==
    error \in FallibleSteps =>
        /\ pc = "panicked"
        /\ frame_trace \in {CallsBefore(error, TRUE), CallsBefore(error, FALSE)}
        /\ frame = SlotOf(FrameNo)
        /\ StepNo(error) <= StepNo("queue_submit") =>
              \A s \in submissions : s.frame_no # FrameNo
        /\ StepNo(error) <= StepNo("queue_present") =>
              \A p \in presents : p.frame_no # FrameNo
        /\ ~ENABLED Next

\* C11 witness: the submit of a later frame failed after its fence reset.
C11_Witness ==
    /\ pc = "panicked"
    /\ error = "queue_submit"
    /\ Len(slots_used) >= 1
    /\ frame_trace[Len(frame_trace)] = "reset_fences"

\* The adapters the scan has passed over, and the one it picked (handles are
\* positions in enumeration order).
Skipped == {k \in 1 .. Len(scan.examined) : scan.examined[k].error # "none"}

Picked == {k \in 1 .. Len(scan.examined) : scan.examined[k].error = "none"}

\* C12 (as stated): the adapter recorded as physical device has a graphics
\* family, a family that can present, every required extension and non-empty
\* format and present-mode lists, no adapter before it in enumeration order
\* has all of these, and no adapter that has all of them is passed over.
C12_Original ==
    /\ \A k \in Picked : scan.examined[k].suitable
    /\ \A k \in Skipped : ~scan.examined[k].suitable

\* C12 (amended): the adapter recorded as physical device is the one whose
\* check succeeded; it has a graphics family, a family that can present, every
\* required extension and non-empty format and present-mode lists; it is the
\* last adapter examined, and every adapter before it either lacks one of
\* these or had a capability query answered with an error.
C12_FirstSuitableAdapter ==
    /\ \A k \in Picked :
          /\ scan.examined[k].suitable
          /\ k = Len(scan.examined)
          /\ context.physical_device = k
          /\ Suitable(scan.physical_device)
    /\ \A k \in Skipped :
          ~scan.examined[k].suitable \/ scan.examined[k].error = DriverError
    /\ Picked = {} => context.physical_device = NullHandle

\* C12 witness: the second adapter was picked after the first, which lacks
\* something, was passed over.
C12_Witness ==
    /\ Picked = {2}
    /\ ~scan.examined[1].suitable
    /\ context.physical_device = 2

\* C13 (as stated): a failing check never ends the scan; selection fails only
\* after every enumerated adapter was examined, none of them having a graphics
\* family, a family that can present, the extensions and the formats and
\* modes; then no physical device is recorded and no logical device created.
C13_Original ==
    scan.stage = "pick_failed" =>
        /\ Len(scan.examined) = scan.count
        /\ \A k \in 1 .. Len(scan.examined) : ~scan.examined[k].suitable
        /\ context.physical_device = NullHandle

\* C13 (amended): a failing check (the adapter lacks something, or a query on
\* it was answered with an error) never ends the scan: while adapters are left
\* the next one is examined.  Selection fails exactly when every enumerated
\* adapter was examined and failed its check (none, when there is none or the
\* enumeration itself failed); then no physical device is recorded, no
\* logical device is created, no queue is fetched and start-up has failed.
C13_ScanSkipsFailures ==
    /\ scan.stage = "scan" /\ Len(scan.examined) < scan.count =>
          /\ Picked = {}
          /\ pc = "device_new"
          /\ ENABLED ExaminePhysicalDevice
          /\ ~ENABLED PickFail
    /\ scan.stage = "scan" /\ Len(scan.examined) = scan.count =>
          /\ ENABLED PickFail
          /\ ~ENABLED ExaminePhysicalDevice
          /\ ~ENABLED CreateDevice
    /\ scan.stage = "pick_failed" =>
          /\ Len(scan.examined) = scan.count
          /\ Picked = {}
          /\ \A k \in Skipped :
                ~scan.examined[k].suitable \/ scan.examined[k].error = DriverError
          /\ context.physical_device = NullHandle
          /\ context.graphics_queue = NullHandle
          /\ context.present_queue = NullHandle
          /\ \A k \in 1 .. Len(startup_calls) : startup_calls[k].kind # "device"
          /\ scan.queue_infos = <<>>
          /\ pc = "startup_failed"
    /\ scan.stage \in {"picked", "created", "create_failed"} => Picked # {}

\* C13 witness: two adapters were enumerated, both failed their check, and
\* selection failed after the second.
C13_Witness ==
    /\ scan.stage = "pick_failed"
    /\ scan.count = 2
    /\ Skipped = {1, 2}

\* C14: when validation is requested and the validation layer is not among
\* the listed instance layers, VulkanInstance::new can only return the
\* "not supported" error: it cannot go on to create the instance, and the
\* error is returned with no instance, no debug messenger and nothing else
\* created; start-up has failed for good.
C14_MissingValidationLayer ==
    /\ pc = "create_instance" /\ MissingLayer =>
          /\ ~ENABLED InstanceNew
          /\ ~ENABLED StartupFail
          /\ ENABLED MissingValidationLayer
          /\ startup_calls = <<>>
    /\ error = ValidationNotSupported =>
          /\ validation
          /\ pc = "startup_failed"
          /\ startup_calls = <<>>
          /\ context = EmptyContext
          /\ ~ENABLED Next

\* C14 witness: start-up failed with the "not supported" error.
C14_Witness ==
    /\ error = ValidationNotSupported
    /\ pc = "startup_failed"

\* VulkanRenderer::new has returned Ok: the renderer exists.
StartupDone == pc \notin Range(StartupSteps) \cup {"startup_failed"}

\* C15: once start-up has succeeded, and after any number of render() calls
\* (and after destroy), the command buffers, the framebuffers, the swapchain
\* image views, the swapchain images and the entries of images_in_flight are
\* equally many.
C15_PerImageCountsEqual ==
    StartupDone =>
        /\ NumImages >= 1
        /\ Len(context.command_buffers) = NumImages
        /\ Len(context.framebuffers) = NumImages
        /\ Len(context.swapchain_image_views) = NumImages
        /\ Len(context.images_in_flight) = NumImages

\* C15 witness: three swapchain images, and frames have been rendered.
C15_Witness ==
    /\ pc = "loop"
    /\ NumImages = 3
    /\ Len(slots_used) >= MAX_FRAMES_IN_FLIGHT
    /\ Len(context.command_buffers) = 3

\* C16: once start-up has succeeded, and after any number of render() calls,
\* there are exactly MAX_FRAMES_IN_FLIGHT image-available semaphores, as many
\* render-finished semaphores and as many fences, all different objects,
\* whatever the number of swapchain images.
C16_FrameSlotCount ==
    StartupDone =>
        /\ Len(context.image_available_semaphores) = MAX_FRAMES_IN_FLIGHT
        /\ Len(context.render_finished_semaphores) = MAX_FRAMES_IN_FLIGHT
        /\ Len(context.in_flight_fences) = MAX_FRAMES_IN_FLIGHT
        /\ Cardinality(Range(context.image_available_semaphores)
                        \cup Range(context.render_finished_semaphores))
              = 2 * MAX_FRAMES_IN_FLIGHT
        /\ Cardinality(Range(context.in_flight_fences)) = MAX_FRAMES_IN_FLIGHT
        /\ frame \in Slots

\* C16 witness: three swapchain images, two frame slots, frames rendered.
C16_Witness ==
    /\ pc = "loop"
    /\ NumImages = 3
    /\ Len(slots_used) >= 3
    /\ Len(context.in_flight_fences) = 2

\* C17: a step taken while render() runs (its start included) changes no
\* field of the context other than images_in_flight: swapchain, image views,
\* render pass, pipeline and its layout, framebuffers, command pool, command
\* buffers and the synchronization objects stay the same objects; it makes no
\* create, destroy or record call (the recordings of start-up stay as they
\* are); only images_in_flight, the frame slot index and the signal state
\* of the synchronization objects change.
C17_RenderChangesNoObject ==
    [][ (pc \in RenderPcs \/ pc' \in RenderPcs) =>
            /\ [context' EXCEPT !.images_in_flight = context.images_in_flight]
                  = context
            /\ Len(context'.images_in_flight) = Len(context.images_in_flight)
            /\ startup_calls' = startup_calls
            /\ destroy_calls' = destroy_calls
            /\ destroy_count' = destroy_count
            /\ DOMAIN fence_signaled' = DOMAIN fence_signaled
            /\ DOMAIN sem_signaled' = DOMAIN sem_signaled
      ]_vars

\* C17 witness: frames were rendered; render() has changed images_in_flight
\* and the frame slot index.
C17_Witness ==
    /\ pc = "loop"
    /\ Len(slots_used) = 3
    /\ frame = 1
    /\ \E i \in 0 .. (NumImages - 1) : At(context.images_in_flight, i) # NullHandle
    /\ \A k \in 1 .. Len(context.command_buffers) : Len(RecordingsOf(k)) = 1

\* The object classes each step of VulkanRenderer::new creates, in order.
ClassesOfStep ==
    [ instance_new |-> <<>>,
      create_instance |-> <<"instance">>,
      swapchain_new |-> <<"surface">>,
      device_new |-> <<"device">>,
      swapchain_create |-> <<"swapchain">>,
      create_image_views |-> <<"image_view">>,
      pipeline_create |-> <<"render_pass", "pipeline_layout", "pipeline">>,
      framebuffer_create |-> <<"framebuffer">>,
      create_command_pool |-> <<"command_pool">>,
      create_command_buffers |-> <<"command_buffer">>,
      create_sync_objects |-> <<"sync">> ]

\* The classes created by the first n steps of start-up.
RECURSIVE CreatedBy(_)
CreatedBy(n) ==
    IF n = 0 THEN <<>> ELSE CreatedBy(n - 1) \o ClassesOfStep[StartupSteps[n]]

CreatedBefore(step) ==
    CreatedBy((CHOOSE k \in 1 .. Len(StartupSteps) : StartupSteps[k] = step) - 1)

\* The objects a trace creates that the renderer keeps: create and allocate
\* calls other than those for the transient shader modules and the optional
\* debug messenger.
ObjectCalls(trace) ==
    SelectSeq(trace, LAMBDA c : /\ c.op \in {"create", "allocate"}
                                /\ c.kind \notin {"shader_module", "debug_messenger"})

C19_QueueRequestsDeduplicated ==
    scan.stage = "created" =>
        LET indices == QueueFamilyIndicesGet(scan.physical_device.families)
            requests == scan.queue_infos
        IN  /\ indices.error = "none"
            /\ Range(requests) = {indices.graphics, indices.present}
            /\ Len(requests) = IF indices.graphics = indices.present THEN 1 ELSE 2
            /\ \A j, k \in 1 .. Len(requests) : j # k => requests[j] # requests[k]
            /\ scan.queue_gets = << <<indices.graphics, 0>>, <<indices.present, 0>> >>
            /\ context.graphics_queue = GetDeviceQueue(indices.graphics)
            /\ context.present_queue = GetDeviceQueue(indices.present)

\* C19 witness: the graphics and the present family coincide and one request
\* was made.
C19_Witness ==
    /\ scan.stage = "created"
    /\ Len(scan.queue_infos) = 1
    /\ context.graphics_queue = context.present_queue
    /\ context.graphics_queue # NullHandle

\* C20: command buffer k is recorded exactly once, during start-up, against
\* framebuffer k of swapchain image k; the command buffer a frame submits is
\* the one at the acquired image index, so the draw of a frame targets the
\* image the frame acquired and presents, never another swapchain image.
C20_DrawTargetsAcquiredImage ==
    /\ \A k \in 1 .. Len(context.command_buffers) :
          LET recordings == RecordingsOf(context.command_buffers[k])
          IN  /\ Len(recordings) = 1
              /\ recordings[1].framebuffer = context.framebuffers[k]
              /\ ImageOfCommandBuffer(context.command_buffers[k]) = k - 1
    /\ \A s \in submissions :
          s.frame_no = FrameNo =>
              s.command_buffer = At(context.command_buffers, frame_log.image)
    /\ \A s \in submissions : \A p \in presents :
          s.frame_no = p.frame_no =>
              ImageOfCommandBuffer(s.command_buffer) = p.image
    /\ frame_log.drawn # -1 => frame_log.drawn = frame_log.image
    /\ frame_log.shown # -1 => frame_log.shown = frame_log.drawn

\* C20 witness: a frame acquired a swapchain image other than the first, drew
\* to it with the command buffer of that index and presented it.
C20_Witness ==
    /\ frame_log.image >= 1
    /\ frame_log.drawn = frame_log.image
    /\ frame_log.shown = frame_log.image
    /\ \E s \in submissions :
          /\ s.frame_no = FrameNo
          /\ s.executed
          /\ s.command_buffer = At(context.command_buffers, frame_log.image)

\* ---------------------------------------------------------------------
\* The debug messenger callback (instance.rs 123-143)
\* ---------------------------------------------------------------------

\* Driver messages the callback is applied to in one run.
MaxMessages == 2

\* vk::DebugUtilsMessageSeverityFlagsEXT: the bit of each severity.  The
\* flags compare by their bits, as the derived PartialOrd does.
VERBOSE == 1
INFO == 16
WARNING == 256
ERROR == 4096

\* The driver calls back with exactly one severity bit.
MessageSeverities == {VERBOSE, INFO, WARNING, ERROR}

\* vk::DebugUtilsMessageTypeFlagsEXT: any non-empty set of message types.
MessageTypes == (SUBSET {"GENERAL", "VALIDATION", "PERFORMANCE"}) \ {{}}

\* vk::FALSE, the value the callback returns: the triggering call goes on.
VK_FALSE == FALSE

\* lines 132-140: the macro of the log crate the message is written with.
LogLevel(severity) ==
    IF severity >= ERROR THEN "error"
    ELSE IF severity >= WARNING THEN "warn"
    ELSE IF severity >= INFO THEN "debug"
    ELSE "trace"

\* debug_callback: one log line at LogLevel(severity), then vk::FALSE.
debug_callback(severity, type_) ==
    [ severity |-> severity,
      type_ |-> type_,
      logged |-> <<LogLevel(severity)>>,
      returned |-> VK_FALSE ]

\* The validation layers are enabled and nothing else runs.
CallbackInit ==
    /\ Init
    /\ validation

\* The driver reports a message: debug_callback runs once on it.
DriverMessage ==
    /\ Len(messages) < MaxMessages
    /\ \E severity \in MessageSeverities : \E type_ \in MessageTypes :
          messages' = Append(messages, debug_callback(severity, type_))
    /\ UNCHANGED <<fence_signaled, sem_signaled, acquires, submissions, presents,
                   acquirable, frame_log, hazard, available_layers>>
    /\ UNCHANGED <<validation, pc, context, frame, image_index, prev_fence,
                   exiting, redraw_requested, closes, destroy_count,
                   startup_calls, destroy_calls, frame_trace, slots_used,
                   acquired, error, scan>>

CallbackNext == DriverMessage

CallbackSpec == CallbackInit /\ [][CallbackNext]_vars

\* The log level the claim C21 gives a severity flag.
C21_LevelOf(severity) ==
    IF severity = ERROR THEN "error"
    ELSE IF severity = WARNING THEN "warn"
    ELSE IF severity = INFO THEN "info"
    ELSE "trace"

\* C21: the debug callback writes every driver message to exactly one of the
\* log severities error, warning, info, trace, chosen by the severity flag of
\* the message (error to error, warning to warning, info to info, anything
\* lower to trace), and returns false.
C21_SeverityRouting ==
    \A k \in 1 .. Len(messages) :
        /\ messages[k].logged = <<C21_LevelOf(messages[k].severity)>>
        /\ messages[k].returned = FALSE

(***************************************************************************)
(* Progress of render(): the program with no failing driver call inside    *)
(* render(), a control thread that keeps running and a driver that         *)
(* eventually carries out every operation it was given and eventually      *)
(* lets a presented image go.                                              *)
(***************************************************************************)
LiveNext == Startup \/ EventLoop \/ RenderStep \/ Gpu

Fairness ==
    /\ WF_vars(RenderStep)
    /\ WF_vars(GpuSignalAcquire)
    /\ WF_vars(GpuExecute)
    /\ WF_vars(GpuSignalFence)
    /\ WF_vars(GpuPresent)
    /\ WF_vars(GpuRelease)

LiveSpec == Init /\ [][LiveNext]_vars /\ Fairness

\* The positions of the control thread inside render().
RenderSteps ==
    {"wait_frame_fence", "acquire", "wait_image_fence", "claim", "reset_fences",
     "queue_submit", "queue_present", "queue_wait_idle", "advance"}

InRender == pc \in RenderSteps

\* A submission whose completion will signal the fence.
PendingOn(fence) == \E s \in submissions : s.fence = fence

\* Every fence render() is about to wait on is signaled or will be.
WaitedFenceWillSignal ==
    /\ pc = "wait_frame_fence" =>
          IsSignaled(CurrentFence) \/ PendingOn(CurrentFence)
    /\ pc = "wait_image_fence" =>
          LET mapped == At(context.images_in_flight, image_index)
          IN  mapped = NullHandle \/ IsSignaled(mapped) \/ PendingOn(mapped)

\* C22: when no driver call of render() fails and the GPU eventually
\* completes what it was given, every render() call returns, for every
\* swapchain image count and every order of acquired indices: each fence
\* render() waits on is signaled or has a pending submission that will signal
\* it.
C22_RenderReturns ==
    /\ []WaitedFenceWillSignal
    /\ InRender ~> (pc = "loop")

\* C22 witness: render() is blocked on the fence of a reused frame slot whose
\* submission has not completed yet.
C22_Witness ==
    /\ pc = "wait_frame_fence"
    /\ ~IsSignaled(CurrentFence)
    /\ PendingOn(CurrentFence)
    /\ Len(slots_used) >= MAX_FRAMES_IN_FLIGHT

\* C23: render() issues the acquire of frame slot f only after its wait on
\* the fence of slot f, when the previous submission of that slot has
\* completed: the image-available semaphore of the slot is unsignaled and no
\* earlier submission that waits on it is pending when it is handed to the
\* acquire, and the submission that later waits on it is that of the
\* acquiring frame.
C23_AcquireAfterSlotCompleted ==
    /\ pc = "acquire" =>
          /\ frame_trace = <<"wait_for_fences">>
          /\ IsSignaled(CurrentFence)
          /\ ~sem_signaled[At(context.image_available_semaphores, frame)]
          /\ \A s \in submissions :
                /\ s.fence # CurrentFence
                /\ s.wait # At(context.image_available_semaphores, frame)
          /\ \A a \in acquires :
                a.semaphore # At(context.image_available_semaphores, frame)
    /\ \A a \in acquires : \A s \in submissions :
          s.wait = a.semaphore => s.frame_no = a.frame_no

\* C23 witness: render() is about to acquire for a reused frame slot while the
\* submission of the other slot is still pending.
C23_Witness ==
    /\ pc = "acquire"
    /\ Len(slots_used) >= MAX_FRAMES_IN_FLIGHT
    /\ submissions # {}

\* The positions of render() after line 120 has claimed the acquired image.
AfterClaim ==
    {"reset_fences", "queue_submit", "queue_present", "queue_wait_idle", "advance"}

\* C24: every entry of images_in_flight is null or one of the
\* MAX_FRAMES_IN_FLIGHT frame-slot fences; a render() call in slot f that
\* acquired image i sets entry i to the fence of slot f and changes no other
\* entry, and nothing else changes an entry, so entry i names the fence of the
\* most recent frame that used image i.
C24_ImagesInFlightMap ==
    /\ [](/\ Len(context.in_flight_fences) \in {0, MAX_FRAMES_IN_FLIGHT}
          /\ \A k \in 1 .. Len(context.images_in_flight) :
                context.images_in_flight[k]
                    \in {NullHandle} \cup Range(context.in_flight_fences)
          /\ pc \in AfterClaim =>
                At(context.images_in_flight, image_index) = CurrentFence)
    /\ [][\A k \in 1 .. Len(context.images_in_flight) :
             context'.images_in_flight[k] # context.images_in_flight[k] =>
                /\ pc = "claim"
                /\ pc' = "reset_fences"
                /\ k = image_index + 1
                /\ context'.images_in_flight[k] = CurrentFence
                /\ frame' = frame]_vars

\* C24 witness: a render() call in frame slot 1 has claimed an image other
\* than the first while another image is still mapped to the fence of slot 0.
C24_Witness ==
    /\ pc = "advance"
    /\ frame = 1
    /\ image_index >= 1
    /\ At(context.images_in_flight, image_index) = At(context.in_flight_fences, 1)
    /\ \E i \in 0 .. (NumImages - 1) :
          /\ i # image_index
          /\ At(context.images_in_flight, i) = At(context.in_flight_fences, 0)

\* C25: for every sequence of window events, CloseRequested delivered more
\* than once before the event loop stops included, the destroy sequence runs
\* at most once: no GPU object is destroyed twice.
C25_DestroyAtMostOnce ==
    /\ destroy_count <= 1
    /\ ~hazard.use_after_destroy

\* C26: render() waits for the presentation queue to be idle after the
\* present request and before it advances the frame slot: when render()
\* returns Ok the present of that frame has been carried out, and no new
\* submission signals the render-finished semaphore of a slot while a present
\* request that waits on it is pending.
C26_PresentCompletesBeforeReturn ==
    /\ pc = "advance" =>
          /\ presents = {}
          /\ frame_log.shown = image_index
          /\ Len(frame_trace) >= 2
          /\ SubSeq(frame_trace, Len(frame_trace) - 1, Len(frame_trace))
                = <<"queue_present_khr", "queue_wait_idle">>
    /\ pc = "loop" => presents = {}
    /\ \A p \in presents : \A s \in submissions :
          s.signal \in p.wait => s.frame_no = p.frame_no

\* C26 witness: render() is about to return Ok, its image presented, while the
\* fence of its submission on a separate graphics queue is still pending.
C26_Witness ==
    /\ pc = "advance"
    /\ frame_log.shown = image_index
    /\ Len(slots_used) >= MAX_FRAMES_IN_FLIGHT
    /\ context.graphics_queue # context.present_queue
    /\ \E s \in submissions : s.frame_no = FrameNo

\* A fence that is unsignaled with no submission left to signal it.
Orphaned(fence) == ~IsSignaled(fence) /\ ~PendingOn(fence)

\* The steps of render() before images_in_flight is written (line 119).
BeforeClaimSteps == {"wait_frame_fence", "acquire", "wait_image_fence"}

\* C27 as stated: a render() call that returns an error leaves the
\* synchronizer state as it was before the call: the frame slot, every
\* images_in_flight entry (the acquired image's still holds what line 111
\* read) and the signaled state of the slot's fence, and no fence is
\* unsignaled without a pending submission.
C27_Original ==
    pc = "panicked" =>
        /\ frame = Len(slots_used) % MAX_FRAMES_IN_FLIGHT
        /\ error \notin BeforeClaimSteps =>
              At(context.images_in_flight, image_index) = prev_fence
        /\ \A k \in 1 .. Len(context.in_flight_fences) :
              ~Orphaned(context.in_flight_fences[k])

\* C27 as amended: a render() call that returns an error leaves the frame
\* slot as it was.  When the failing call is one before line 119 (the wait on
\* the slot's fence, the acquire, the wait on the image's fence) no
\* images_in_flight entry was written and the slot's fence was not reset; when
\* it is reset_fences or a later call, the acquired image's entry names the
\* slot's fence; when it is queue_submit, the slot's fence is left unsignaled
\* with no submission to signal it.  Every other fence is signaled or has a
\* pending submission.
C27_ErrorKeepsSlotOnly ==
    pc = "panicked" =>
        /\ frame = Len(slots_used) % MAX_FRAMES_IN_FLIGHT
        /\ error \in FallibleSteps
        /\ error \in BeforeClaimSteps =>
              /\ "claim" \notin Range(frame_trace)
              /\ "reset_fences" \notin Range(frame_trace)
        /\ error \notin BeforeClaimSteps =>
              /\ "claim" \in Range(frame_trace)
              /\ At(context.images_in_flight, image_index) = CurrentFence
        /\ error = "reset_fences" => ~Orphaned(CurrentFence)
        /\ error = "queue_submit" => Orphaned(CurrentFence)
        /\ error \in {"queue_present", "queue_wait_idle"} => ~Orphaned(CurrentFence)
        /\ \A k \in 1 .. Len(context.in_flight_fences) :
              context.in_flight_fences[k] # CurrentFence =>
                  ~Orphaned(context.in_flight_fences[k])

\* C27 witness: queue_submit failed in a frame that had claimed an image
\* last used by the other frame slot; the slot's fence stays unsignaled.
C27_Witness ==
    /\ pc = "panicked"
    /\ error = "queue_submit"
    /\ Orphaned(CurrentFence)
    /\ prev_fence # NullHandle
    /\ prev_fence # CurrentFence
    /\ At(context.images_in_flight, image_index) = CurrentFence

====
